---- MODULE Spec2Model ----
(***************************************************************************)
(* Model of src/index.ts: the two Kernel apps 'download-task' and          *)
(* 'headcount-task'.  Each variant checks its two credentials at module    *)
(* load, registers one action, and the action handler runs a straight line *)
(* of awaited external calls: browsers.create, stagehand.init, page.goto,  *)
(* agent.execute, activePage, page.evaluate (in-page fetch), fs.writeFile. *)
(* An optional value v is modelled as <<>> (undefined) or <<v>>.           *)
(* A URL or file name is a sequence of one-character strings.              *)
(***************************************************************************)
EXTENDS Integers, Sequences, FiniteSets, TLC

VARIABLES
    variant,        \* which of the two apps of index.ts is deployed
    env,            \* process.env: OPENAI_API_KEY, GOOGLE_API_KEY (optional strings)
    modPc,          \* module top level: "load", "failed", "ready"
    startupError,   \* optional: the error thrown by the module top level
    registered,     \* names of the actions registered with app.action
    invocations,    \* number of handler invocations started so far
    payload,        \* optional: the payload of the current invocation
    pc,             \* position of the current invocation of the handler
    calls,          \* external operations attempted by the current invocation
    error,          \* optional: the error that escaped the handler
    kernelBrowser,  \* optional: session_id of the browser this invocation created
    sessions,       \* live remote browser sessions on the platform
    created,        \* number of sessions the platform has created so far
    listeners,      \* CDP event names the handler has subscribed to
    events,         \* download events the session's browser has emitted
    handled,        \* download events that reached a callback of the handler
    pdfUrl,         \* optional: URL of the active page after the agent ran
    buffer,         \* optional: bytes returned by the in-page fetch
    result,         \* optional: the record the handler returned
    remoteFiles     \* files written to the sessions' remote file systems

vars == <<variant, env, modPc, startupError, registered, invocations, payload,
          pc, calls, error, kernelBrowser, sessions, created, listeners,
          events, handled, pdfUrl, buffer, result, remoteFiles>>

\* ---------------------------------------------------------------- bounds
MaxInvocations == 2
MaxUrlLen == 2
MaxEvents == 2

\* ------------------------------------------------------------- constants
None == <<>>
Some(x) == <<x>>

Variants == {"download-task", "headcount-task"}

DOWNLOAD_DIR == <<"/", "t", "m", "p", "/", "d", "o", "w", "n", "l", "o", "a", "d", "s">>

DefaultFilename == <<"d", "o", "w", "n", "l", "o", "a", "d", ".", "p", "d", "f">>

RequiredMsg == "url, instruction, and maxSteps are required"

NoActivePageMsg == "No active page found after agent execution"

OpenAiMsg == "OPENAI_API_KEY is not set"

GoogleMsg == "GOOGLE_API_KEY is not set"

\* the order in which a handler awaits its external operations
Order == <<"browsers.create", "stagehand.init", "page.goto", "agent.execute",
           "context.activePage", "page.evaluate", "fs.writeFile">>

\* ---------------------------------------------------------------- inputs
OptStrings == {None, Some(""), Some("x")}

OptSteps == {None, Some(0), Some(1)}

DownloadPayloads ==
    {None} \cup
    {Some([url |-> u, instruction |-> i, maxSteps |-> m]) :
        u \in OptStrings, i \in OptStrings, m \in OptSteps}

HeadcountPayloads == {None} \cup {Some([query |-> q]) : q \in OptStrings}

UrlChars == {"/", "a"}

RECURSIVE SeqsUpTo(_, _)
SeqsUpTo(S, n) ==
    IF n = 0 THEN {<<>>}
    ELSE LET shorter == SeqsUpTo(S, n - 1)
         IN  shorter \cup {Append(s, c) : s \in shorter, c \in S}

Urls == SeqsUpTo(UrlChars, MaxUrlLen)

Buffers == {<<37, 80>>}

DownloadEvents == {"willBegin", "inProgress", "completed", "canceled"}

EventName(e) ==
    IF e = "willBegin" THEN "Browser.downloadWillBegin" ELSE "Browser.downloadProgress"

\* ------------------------------------------------------- pure functions
\* JavaScript truthiness of an optional string: !v is true for undefined and ""
TruthyStr(o) == o # None /\ o[1] # ""

\* faulty variant: the number is only tested for undefined, so 0 passes
DefinedNum(o) == o # None

\* JavaScript truthiness of an optional number: !v is true for undefined and 0
TruthyNum(o) == o # None /\ o[1] # 0

\* payload?.f
Field(p, f) == IF p = None THEN None ELSE p[1][f]

\* s.split('/'): the segments of s between the separators, in order
RECURSIVE Split(_)
Split(s) ==
    IF \A i \in 1..Len(s) : s[i] # "/" THEN <<s>>
    ELSE LET k == CHOOSE i \in 1..Len(s) :
                    s[i] = "/" /\ \A j \in 1..(i - 1) : s[j] # "/"
         IN  <<SubSeq(s, 1, k - 1)>> \o Split(SubSeq(s, k + 1, Len(s)))

\* array.pop(): the last element
Pop(a) == a[Len(a)]

\* faulty variant: the fallback to 'download.pdf' is left out
FilenameNoFallback(u) == Pop(Split(u))

\* pdfUrl.split('/').pop() || 'download.pdf'
Filename(u) == IF Pop(Split(u)) # <<>> THEN Pop(Split(u)) ELSE DefaultFilename

\* `${DOWNLOAD_DIR}/${filename}`
RemotePath(f) == DOWNLOAD_DIR \o <<"/">> \o f

\* payload?.query || 'kernel'
Query(p) == IF TruthyStr(Field(p, "query")) THEN Field(p, "query")[1] ELSE "kernel"

Attempt(op, ok) == [op |-> op, ok |-> ok]

Err(msg, from) == [message |-> msg, from |-> from]

Ended == pc \in {"returned", "thrown"}

\* -------------------------------------------------------------- initial
Init ==
    /\ variant \in Variants
    /\ env \in [OPENAI_API_KEY : OptStrings, GOOGLE_API_KEY : OptStrings]
    /\ modPc = "load"
    /\ startupError = None
    /\ registered = {}
    /\ invocations = 0
    /\ payload = None
    /\ pc = "idle"
    /\ calls = <<>>
    /\ error = None
    /\ kernelBrowser = None
    /\ sessions = {}
    /\ created = 0
    /\ listeners = {}
    /\ events = <<>>
    /\ handled = <<>>
    /\ pdfUrl = None
    /\ buffer = None
    /\ result = None
    /\ remoteFiles = {}

\* faulty variant: the GOOGLE_API_KEY check is left out
ModuleLoadOneCheck ==
    /\ modPc = "load"
    /\ IF ~TruthyStr(env.OPENAI_API_KEY)
       THEN /\ modPc' = "failed"
            /\ startupError' = Some(OpenAiMsg)
            /\ UNCHANGED registered
       ELSE /\ modPc' = "ready"
            /\ registered' = registered \cup {variant}
            /\ UNCHANGED startupError
    /\ UNCHANGED <<variant, env, invocations, payload, pc, calls, error,
                   kernelBrowser, sessions, created, listeners, events, handled,
                   pdfUrl, buffer, result, remoteFiles>>

\* ---------------------------------------------------- module top level
\* new Kernel(), kernel.app(...), the two credential checks, app.action(...)
ModuleLoad ==
    /\ modPc = "load"
    /\ IF ~TruthyStr(env.OPENAI_API_KEY)
       THEN /\ modPc' = "failed"
            /\ startupError' = Some(OpenAiMsg)
            /\ UNCHANGED registered
       ELSE IF ~TruthyStr(env.GOOGLE_API_KEY)
       THEN /\ modPc' = "failed"
            /\ startupError' = Some(GoogleMsg)
            /\ UNCHANGED registered
       ELSE /\ modPc' = "ready"
            /\ registered' = registered \cup {variant}
            /\ UNCHANGED startupError
    /\ UNCHANGED <<variant, env, invocations, payload, pc, calls, error,
                   kernelBrowser, sessions, created, listeners, events, handled,
                   pdfUrl, buffer, result, remoteFiles>>

\* faulty variant: a finally clause destroys the session before the error leaves
ThrowWithTeardown(op, e) ==
    /\ calls' = calls \o <<Attempt(op, FALSE)>> \o
                 (IF kernelBrowser = None THEN <<>>
                  ELSE <<Attempt("browsers.deleteByID", TRUE)>>)
    /\ sessions' = IF kernelBrowser = None THEN sessions
                   ELSE sessions \ {kernelBrowser[1]}
    /\ pc' = "thrown"
    /\ error' = Some(e)
    /\ UNCHANGED <<variant, env, modPc, startupError, registered, invocations,
                   payload, kernelBrowser, created, listeners, events,
                   handled, pdfUrl, buffer, result, remoteFiles>>

\* ------------------------------------------------------------- handlers
\* a rejected await or a throw statement: the error leaves the handler as it is
\* raised; the handler has no try, catch or finally
Throw(op, e) ==
    /\ calls' = Append(calls, Attempt(op, FALSE))
    /\ pc' = "thrown"
    /\ error' = Some(e)
    /\ UNCHANGED <<variant, env, modPc, startupError, registered, invocations,
                   payload, kernelBrowser, sessions, created, listeners, events,
                   handled, pdfUrl, buffer, result, remoteFiles>>

\* faulty variant: a catch clause turns the rejection into a failure result
RejectedCaught(op) ==
    /\ calls' = Append(calls, Attempt(op, FALSE))
    /\ pc' = "returned"
    /\ result' = Some([success |-> FALSE, resultMessage |-> ""])
    /\ UNCHANGED <<variant, env, modPc, startupError, registered, invocations,
                   payload, error, kernelBrowser, sessions, created, listeners,
                   events, handled, pdfUrl, buffer, remoteFiles>>

Rejected(op) == Throw(op, Err("rejected", op))

\* the platform calls a registered handler; one invocation runs at a time
CanInvoke(name) ==
    /\ modPc = "ready"
    /\ name \in registered
    /\ pc \in {"idle", "returned", "thrown"}
    /\ invocations < MaxInvocations

\* the locals of a fresh invocation
Enter(p) ==
    /\ invocations' = invocations + 1
    /\ payload' = p
    /\ calls' = <<>>
    /\ kernelBrowser' = None
    /\ listeners' = {}
    /\ events' = <<>>
    /\ handled' = <<>>
    /\ pdfUrl' = None
    /\ buffer' = None
    /\ result' = None
    /\ UNCHANGED <<variant, env, modPc, startupError, registered, sessions,
                   created, remoteFiles>>

\* !url || !instruction || !maxSteps
InvalidInput(p) ==
    \/ ~TruthyStr(Field(p, "url"))
    \/ ~TruthyStr(Field(p, "instruction"))
    \/ ~TruthyNum(Field(p, "maxSteps"))

\* 'download-task': entry and input validation
InvokeDownloadTask ==
    /\ CanInvoke("download-task")
    /\ \E p \in DownloadPayloads :
        /\ Enter(p)
        /\ IF InvalidInput(p)
           THEN /\ pc' = "thrown"
                /\ error' = Some(Err(RequiredMsg, "handler"))
           ELSE /\ pc' = "create"
                /\ error' = None

\* 'headcount-task': entry; the payload only supplies the unused query
InvokeHeadcountTask ==
    /\ CanInvoke("headcount-task")
    /\ \E p \in HeadcountPayloads :
        /\ Enter(p)
        /\ Query(p) \in {"kernel", "x"}
        /\ pc' = "create"
        /\ error' = None

\* faulty variant: the handler subscribes to the two download events on the new session
BrowsersCreateSubscribing ==
    /\ pc = "create"
    /\ \/ /\ created' = created + 1
          /\ kernelBrowser' = Some(created + 1)
          /\ sessions' = sessions \cup {created + 1}
          /\ listeners' = {"Browser.downloadWillBegin", "Browser.downloadProgress"}
          /\ calls' = Append(calls, Attempt("browsers.create", TRUE))
          /\ pc' = "init"
          /\ UNCHANGED <<variant, env, modPc, startupError, registered,
                         invocations, payload, error, events, handled,
                         pdfUrl, buffer, result, remoteFiles>>
       \/ Rejected("browsers.create")

\* await kernel.browsers.create({...})
BrowsersCreate ==
    /\ pc = "create"
    /\ \/ /\ created' = created + 1
          /\ kernelBrowser' = Some(created + 1)
          /\ sessions' = sessions \cup {created + 1}
          /\ calls' = Append(calls, Attempt("browsers.create", TRUE))
          /\ pc' = "init"
          /\ UNCHANGED <<variant, env, modPc, startupError, registered,
                         invocations, payload, error, listeners, events, handled,
                         pdfUrl, buffer, result, remoteFiles>>
       \/ Rejected("browsers.create")

\* faulty variant: a rejected init is attempted again
StagehandInitRetry ==
    /\ pc = "init"
    /\ \/ /\ calls' = Append(calls, Attempt("stagehand.init", TRUE))
          /\ pc' = "goto"
          /\ UNCHANGED <<variant, env, modPc, startupError, registered,
                         invocations, payload, error, kernelBrowser, sessions,
                         created, listeners, events, handled, pdfUrl, buffer,
                         result, remoteFiles>>
       \/ /\ calls' = Append(calls, Attempt("stagehand.init", FALSE))
          /\ UNCHANGED <<variant, env, modPc, startupError, registered,
                         invocations, payload, pc, error, kernelBrowser, sessions,
                         created, listeners, events, handled, pdfUrl, buffer,
                         result, remoteFiles>>

\* new Stagehand({...}); await stagehand.init()
StagehandInit ==
    /\ pc = "init"
    /\ \/ /\ calls' = Append(calls, Attempt("stagehand.init", TRUE))
          /\ pc' = "goto"
          /\ UNCHANGED <<variant, env, modPc, startupError, registered,
                         invocations, payload, error, kernelBrowser, sessions,
                         created, listeners, events, handled, pdfUrl, buffer,
                         result, remoteFiles>>
       \/ Rejected("stagehand.init")

\* stagehand.context.pages()[0]; await page.goto(...); stagehand.agent({...})
PageGoto ==
    /\ pc = "goto"
    /\ \/ /\ calls' = Append(calls, Attempt("page.goto", TRUE))
          /\ pc' = "execute"
          /\ UNCHANGED <<variant, env, modPc, startupError, registered,
                         invocations, payload, error, kernelBrowser, sessions,
                         created, listeners, events, handled, pdfUrl, buffer,
                         result, remoteFiles>>
       \/ Rejected("page.goto")

\* faulty variant: after the agent returns the handler settles for a result without a
\* file when no download has completed
AgentExecuteSoft ==
    /\ pc = "execute"
    /\ \/ /\ calls' = Append(calls, Attempt("agent.execute", TRUE))
          /\ pc' = "returned"
          /\ result' = Some([success |-> TRUE, resultMessage |-> ""])
          /\ UNCHANGED <<variant, env, modPc, startupError, registered,
                         invocations, payload, error, kernelBrowser, sessions,
                         created, listeners, events, handled, pdfUrl, buffer,
                         remoteFiles>>
       \/ Rejected("agent.execute")

\* await agent.execute({...}); stagehand.context.activePage(); pdfPage.url()
AgentExecute ==
    /\ pc = "execute"
    /\ \/ \E u \in Urls :
            /\ calls' = calls \o <<Attempt("agent.execute", TRUE),
                                   Attempt("context.activePage", TRUE)>>
            /\ pdfUrl' = Some(u)
            /\ pc' = "evaluate"
            /\ UNCHANGED <<variant, env, modPc, startupError, registered,
                           invocations, payload, error, kernelBrowser, sessions,
                           created, listeners, events, handled, buffer, result,
                           remoteFiles>>
       \/ /\ calls' = calls \o <<Attempt("agent.execute", TRUE),
                                 Attempt("context.activePage", FALSE)>>
          /\ pc' = "thrown"
          /\ error' = Some(Err(NoActivePageMsg, "handler"))
          /\ UNCHANGED <<variant, env, modPc, startupError, registered,
                         invocations, payload, kernelBrowser, sessions, created,
                         listeners, events, handled, pdfUrl, buffer, result,
                         remoteFiles>>
       \/ Rejected("agent.execute")

\* faulty variant: the fetch is skipped when no download-will-begin event was seen
PageEvaluateSkip ==
    /\ pc = "evaluate"
    /\ IF \E i \in 1..Len(events) : events[i] = "willBegin"
       THEN \/ \E b \in Buffers :
                  /\ buffer' = Some(b)
                  /\ calls' = Append(calls, Attempt("page.evaluate", TRUE))
                  /\ pc' = "writeFile"
                  /\ UNCHANGED <<variant, env, modPc, startupError, registered,
                                 invocations, payload, error, kernelBrowser,
                                 sessions, created, listeners, events, handled,
                                 pdfUrl, result, remoteFiles>>
            \/ Rejected("page.evaluate")
       ELSE /\ pc' = "returned"
            /\ result' = Some([success |-> TRUE, resultMessage |-> ""])
            /\ UNCHANGED <<variant, env, modPc, startupError, registered,
                           invocations, payload, calls, error, kernelBrowser,
                           sessions, created, listeners, events, handled, pdfUrl,
                           buffer, remoteFiles>>

\* await pdfPage.evaluate(fetch ...): the bytes of the active page's URL
PageEvaluate ==
    /\ pc = "evaluate"
    /\ \/ \E b \in Buffers :
            /\ buffer' = Some(b)
            /\ calls' = Append(calls, Attempt("page.evaluate", TRUE))
            /\ pc' = "writeFile"
            /\ UNCHANGED <<variant, env, modPc, startupError, registered,
                           invocations, payload, error, kernelBrowser, sessions,
                           created, listeners, events, handled, pdfUrl, result,
                           remoteFiles>>
       \/ Rejected("page.evaluate")

\* filename, remotePath; await kernel.browsers.fs.writeFile(...); return {...}
WriteFile ==
    /\ pc = "writeFile"
    /\ \/ LET filename == Filename(pdfUrl[1])
              remotePath == RemotePath(filename)
          IN  /\ remoteFiles' = remoteFiles \cup
                    {[session_id |-> kernelBrowser[1], path |-> remotePath,
                      data |-> buffer[1]]}
              /\ calls' = Append(calls, Attempt("fs.writeFile", TRUE))
              /\ result' = Some([pdfUrl |-> pdfUrl[1], filename |-> filename,
                                 remotePath |-> remotePath,
                                 session_id |-> kernelBrowser[1]])
              /\ pc' = "returned"
              /\ UNCHANGED <<variant, env, modPc, startupError, registered,
                             invocations, payload, error, kernelBrowser, sessions,
                             created, listeners, events, handled, pdfUrl, buffer>>
       \/ Rejected("fs.writeFile")

\* the session's browser emits a download event on its debugging connection;
\* it reaches the handler only through a subscription the handler made
DownloadEvent ==
    /\ kernelBrowser # None
    /\ kernelBrowser[1] \in sessions
    /\ Len(events) < MaxEvents
    /\ \E e \in DownloadEvents :
        /\ events' = Append(events, e)
        /\ handled' = IF EventName(e) \in listeners THEN Append(handled, e)
                      ELSE handled
    /\ UNCHANGED <<variant, env, modPc, startupError, registered, invocations,
                   payload, pc, calls, error, kernelBrowser, sessions, created,
                   listeners, pdfUrl, buffer, result, remoteFiles>>

Next ==
    \/ ModuleLoad
    \/ InvokeDownloadTask
    \/ InvokeHeadcountTask
    \/ BrowsersCreate
    \/ StagehandInit
    \/ PageGoto
    \/ AgentExecute
    \/ PageEvaluate
    \/ WriteFile
    \/ DownloadEvent

Spec == Init /\ [][Next]_vars

\* ------------------------------------------------------------ properties
Attempted(op) == \E i \in 1..Len(calls) : calls[i].op = op

Succeeded(op) == \E i \in 1..Len(calls) : calls[i].op = op /\ calls[i].ok

Count(op) == Cardinality({i \in 1..Len(calls) : calls[i].op = op})

SomeStepFailed == \E i \in 1..Len(calls) : ~calls[i].ok

Completion == {"completed", "canceled"}

CompletionSeen == \E i \in 1..Len(events) : events[i] \in Completion

WillBeginSeen == \E i \in 1..Len(events) : events[i] = "willBegin"

SignalResolved == \E i \in 1..Len(handled) : handled[i] \in Completion

FilenameCaptured == \E i \in 1..Len(handled) : handled[i] = "willBegin"

Armed == {"Browser.downloadWillBegin", "Browser.downloadProgress"} \subseteq listeners

ResultFields == {"pdfUrl", "filename", "remotePath", "session_id"}

SoftSuccess ==
    /\ pc = "returned"
    /\ result # None
    /\ "success" \in DOMAIN result[1]
    /\ result[1].success
    /\ "downloadedFilePath" \notin DOMAIN result[1]

Missing(o) == o \in {None, Some("")}

\* the part of u after its last "/", or all of u when it holds none
LastSegment(u) ==
    CHOOSE s \in {SubSeq(u, k, Len(u)) : k \in 1..(Len(u) + 1)} :
        /\ \A i \in 1..Len(s) : s[i] # "/"
        /\ Len(s) = Len(u) \/ u[Len(u) - Len(s)] = "/"

C3_MissingCredentialFailsStartup ==
    (Missing(env.OPENAI_API_KEY) \/ Missing(env.GOOGLE_API_KEY)) =>
        /\ registered = {}
        /\ invocations = 0
        /\ pc = "idle"
        /\ calls = <<>>
        /\ created = 0
        /\ sessions = {}
        /\ \/ modPc = "load" /\ startupError = None
           \/ /\ modPc = "failed"
              /\ startupError =
                    IF Missing(env.OPENAI_API_KEY) THEN Some(OpenAiMsg)
                    ELSE Some(GoogleMsg)

C3_Witness ==
    /\ modPc = "failed"
    /\ env.OPENAI_API_KEY = Some("x")
    /\ env.GOOGLE_API_KEY = Some("")
    /\ startupError = Some(GoogleMsg)

C8_NoRetries ==
    /\ \A i, j \in 1..Len(calls) : calls[i].op = calls[j].op => i = j
    /\ \A i \in 1..Len(calls) : ~calls[i].ok => i = Len(calls)
    /\ created <= invocations

C8_Witness ==
    /\ pc = "thrown"
    /\ Len(calls) = 2
    /\ calls[2] = Attempt("stagehand.init", FALSE)

\* C9: 'download-task' throws the required-fields error, before any external
\* operation, exactly when the payload is missing or url, instruction or
\* maxSteps is absent, empty or 0; 'headcount-task' never throws it and always
\* goes on to create a session.
C9_InputValidation ==
    /\ (variant = "download-task" /\ invocations > 0) =>
        LET bad == \/ payload = None
                   \/ Missing(payload[1].url)
                   \/ Missing(payload[1].instruction)
                   \/ payload[1].maxSteps \in {None, Some(0)}
            rejected == pc = "thrown" /\ error = Some(Err(RequiredMsg, "handler"))
        IN  /\ bad <=> rejected
            /\ bad => calls = <<>> /\ kernelBrowser = None
    /\ (variant = "headcount-task" /\ invocations > 0) =>
        /\ error # Some(Err(RequiredMsg, "handler"))
        /\ pc = "create" \/ (calls # <<>> /\ calls[1].op = "browsers.create")

C9_Witness ==
    /\ variant = "download-task"
    /\ pc = "thrown"
    /\ payload = Some([url |-> Some("x"), instruction |-> Some("x"),
                       maxSteps |-> Some(0)])
    /\ calls = <<>>

\* C10: the external operations are attempted in the fixed order, each only
\* after all earlier ones succeeded; a missing active page throws its own
\* error; a result is returned only after the write succeeded, the write went
\* to the session this execution created, and the record holds that session's
\* id, remotePath = '/tmp/downloads/' + filename, and filename = the last
\* '/'-separated segment of the page URL, or 'download.pdf' when it is empty.
C10_LinearSequence ==
    /\ Len(calls) <= Len(Order)
    /\ \A i \in 1..Len(calls) : calls[i].op = Order[i]
    /\ \A i \in 1..(Len(calls) - 1) : calls[i].ok
    /\ (calls # <<>> /\ calls[Len(calls)] = Attempt("context.activePage", FALSE)) =>
        pc = "thrown" /\ error = Some(Err(NoActivePageMsg, "handler"))
    /\ pc = "returned" =>
        /\ Len(calls) = Len(Order)
        /\ \A i \in 1..Len(calls) : calls[i].ok
        /\ kernelBrowser # None /\ pdfUrl # None /\ buffer # None
        /\ LET r == result[1]
               seg == LastSegment(pdfUrl[1])
           IN  /\ DOMAIN r = ResultFields
               /\ r.session_id = kernelBrowser[1]
               /\ r.session_id = created
               /\ r.pdfUrl = pdfUrl[1]
               /\ r.filename = IF seg = <<>> THEN DefaultFilename ELSE seg
               /\ r.filename # <<>>
               /\ r.remotePath = <<"/", "t", "m", "p", "/", "d", "o", "w", "n",
                                   "l", "o", "a", "d", "s", "/">> \o r.filename
               /\ [session_id |-> r.session_id, path |-> r.remotePath,
                   data |-> buffer[1]] \in remoteFiles

C10_Witness ==
    /\ pc = "returned"
    /\ invocations = 2
    /\ pdfUrl = Some(<<"a", "/">>)
    /\ result[1].filename = DefaultFilename
    /\ result[1].session_id = 2

====
